---- MODULE Spec2Model ----
(***************************************************************************)
(* Password-Generator: the generators, the name transform and the rule     *)
(* validator of backend/password_utils.py, and the endpoints of            *)
(* backend/main.py, as a state machine.                                    *)
(*                                                                         *)
(* A string is a sequence of one-character strings.  One call or request   *)
(* is one behaviour: Init draws the function or endpoint called, its       *)
(* arguments, the values the random sources will deliver (the tape) and,   *)
(* for an endpoint, how the strength estimator behaves; the action         *)
(* computes what the call returns or raises, or what the endpoint answers. *)
(***************************************************************************)
EXTENDS Integers, Sequences, FiniteSets

VARIABLES
    op,        \* the function or the endpoint called
    args,      \* its arguments, or the request body
    tape,      \* the values the random sources deliver, in the order drawn
    pc,        \* "call" before the call runs, "done" after
    result,    \* what the function called returned or raised
    sources,   \* the module ("secrets" or "random") each draw was made with
    est,       \* how the zxcvbn estimator behaves in this request
    calls,     \* the calls an endpoint made into password_utils, in order
    response   \* the HTTP answer of an endpoint

vars == <<op, args, tape, pc, result, sources, est, calls, response>>

(***************************************************************************)
(* Bounds of the model.                                                    *)
(***************************************************************************)
\* a random source delivers one of Res equally spaced values of [0, 1)
Res == 4
\* the number of independent values of one call; later draws reuse them in turn
TapeLen == 3
\* the largest requested password length
MaxLen == 4
\* the largest requested word count of a passphrase
MaxWords == 2

(***************************************************************************)
(* Python's string constants.                                              *)
(***************************************************************************)
\* the grave accent, U+0060, which a TLA+ string literal cannot hold
chr96 == "GRAVE"

\* three characters outside ASCII whose case mappings are not one character:
\* U+0130 (capital I with dot above), U+0307 (combining dot above), U+00DF (sharp s)
chr304 == "U+0130"

chr775 == "U+0307"

chr223 == "U+00DF"

ascii_lowercase == <<"a", "b", "c", "d", "e", "f", "g", "h", "i", "j", "k", "l", "m", "n", "o", "p", "q", "r", "s", "t", "u", "v", "w", "x", "y", "z">>

ascii_uppercase == <<"A", "B", "C", "D", "E", "F", "G", "H", "I", "J", "K", "L", "M", "N", "O", "P", "Q", "R", "S", "T", "U", "V", "W", "X", "Y", "Z">>

digits == <<"0", "1", "2", "3", "4", "5", "6", "7", "8", "9">>

punctuation == <<"!", "\"", "#", "$", "%", "&", "'", "(", ")", "*", "+", ",", "-", ".", "/", ":", ";", "<", "=", ">", "?", "@", "[", "\\", "]", "^", "_", chr96, "{", "|", "}", "~">>

ascii_letters == ascii_lowercase \o ascii_uppercase

\* exclude_similar removes these
similar_chars == <<"l", "1", "I", "o", "0", "O">>

\* exclude_ambiguous removes these
ambiguous_chars == <<"{", "}", "[", "]", "(", ")", "/", "\\", "'", "\"", chr96, "~", ",", ";", ":", ".", "<", ">">>

(***************************************************************************)
(* Helpers on strings.                                                     *)
(***************************************************************************)
Range(s) == {s[i] : i \in 1..Len(s)}

RECURSIVE Flatten(_)
\* ''.join(list of strings)
Flatten(ss) == IF ss = <<>> THEN <<>> ELSE Head(ss) \o Flatten(Tail(ss))

IndexOf(c, s) == CHOOSE i \in 1..Len(s) : s[i] = c

\* str.lower() and str.upper() of one ASCII character
lower_char(c) == IF c \in Range(ascii_uppercase) THEN ascii_lowercase[IndexOf(c, ascii_uppercase)] ELSE c

upper_char(c) == IF c \in Range(ascii_lowercase) THEN ascii_uppercase[IndexOf(c, ascii_lowercase)] ELSE c

\* str.lower() of one character: U+0130 lowers to "i" and U+0307
lower_chars(c) == IF c = chr304 THEN <<"i", chr775>> ELSE <<lower_char(c)>>

\* str.upper() of one character: U+00DF uppers to "SS"
upper_chars(c) == IF c = chr223 THEN <<"S", "S">> ELSE <<upper_char(c)>>

\* the title case of one character: U+00DF titles to "Ss"
title_chars(c) == IF c = chr223 THEN <<"S", "s">> ELSE <<upper_char(c)>>

lower(s) == Flatten([i \in 1..Len(s) |-> lower_chars(s[i])])

\* str.capitalize(): the first character title-cased, the rest lower-cased
capitalize(s) == IF s = <<>> THEN <<>> ELSE title_chars(s[1]) \o lower(Tail(s))

\* s[::-1]
reversed(s) == [i \in 1..Len(s) |-> s[Len(s) + 1 - i]]

(***************************************************************************)
(* What a call returns or raises.                                          *)
(***************************************************************************)
Return(v) == [ok |-> TRUE, value |-> v, exc |-> "none", msg |-> "none"]

Raise(e, m) == [ok |-> FALSE, value |-> <<>>, exc |-> e, msg |-> m]

\* before the call has run
Pending == [ok |-> FALSE, value |-> <<>>, exc |-> "pending", msg |-> "none"]

\* a direct call of a function: no estimator, no endpoint, no HTTP answer
NoEstimator == [fails |-> FALSE, score |-> 0]

NoResponse == [status |-> 0, body |-> <<>>]

DirectCall ==
    /\ est = NoEstimator
    /\ calls = <<>>
    /\ response = NoResponse
    /\ sources = <<>>

(***************************************************************************)
(* The random sources.  The k-th draw of a call (k = 0, 1, ...) reads the  *)
(* tape; a draw of value d stands for the fraction d / Res of [0, 1).      *)
(***************************************************************************)
Tapes == [1..TapeLen -> 0..(Res - 1)]

draw(t, k) == t[(k % TapeLen) + 1]

\* secrets.randbelow(n), random's _randbelow(n): a value of 0..n-1
randbelow(t, k, n) == (draw(t, k) * n) \div Res

\* secrets.choice(seq), random.choice(seq): seq[randbelow(len(seq))]
choice(seq, t, k) == seq[randbelow(t, k, Len(seq)) + 1]

\* random.random() > 0.7
random_gt_07(t, k) == 10 * draw(t, k) > 7 * Res

\* random.randint(a, b): a + randbelow(b - a + 1)
randint(a, b, t, k) == a + randbelow(t, k, b - a + 1)

swap(x, i, j) == [x EXCEPT ![i] = x[j], ![j] = x[i]]

RECURSIVE shuffle_from(_, _, _, _)
\* the loop of random.shuffle at 0-based index i, its draws starting at draw k
shuffle_from(x, t, k, i) ==
    IF i < 1 THEN x
    ELSE shuffle_from(swap(x, i + 1, randbelow(t, k, i + 1) + 1), t, k + 1, i - 1)

\* random.shuffle(x): for i in reversed(range(1, len(x))): swap x[i], x[randbelow(i+1)]
shuffle(x, t, k) == shuffle_from(x, t, k, Len(x) - 1)

\* n draws made with one module
Draws(module, n) == [i \in 1..n |-> module]

\* the draws of random.shuffle on a list of n elements
shuffle_sources(n) == Draws("random", IF n > 1 THEN n - 1 ELSE 0)

(***************************************************************************)
(* generate_random_password                                                *)
(***************************************************************************)
\* the enabled categories, in the order the code appends them
character_sets(a) ==
    (IF a.include_lowercase THEN <<ascii_lowercase>> ELSE <<>>)
    \o (IF a.include_uppercase THEN <<ascii_uppercase>> ELSE <<>>)
    \o (IF a.include_digits THEN <<digits>> ELSE <<>>)
    \o (IF a.include_special THEN <<punctuation>> ELSE <<>>)

excluded_chars(a) ==
    (IF a.exclude_similar THEN similar_chars ELSE <<>>)
    \o (IF a.exclude_ambiguous THEN ambiguous_chars ELSE <<>>)

\* the comprehension without its condition: nothing is removed
filter_charset_keep_all(charset, excluded) == charset

\* [c for c in charset if c not in excluded_chars]
filter_charset(charset, excluded) == SelectSeq(charset, LAMBDA c : c \notin Range(excluded))

\* the filtered categories that are not empty
filtered_sets(a) ==
    SelectSeq([i \in 1..Len(character_sets(a)) |-> filter_charset(character_sets(a)[i], excluded_chars(a))],
              LAMBDA s : s # <<>>)

\* one character of each filtered category: draws 0 .. len(filtered_sets)-1
guaranteed_chars(sets, t) == [i \in 1..Len(sets) |-> choice(sets[i], t, i - 1)]

\* range(length): the characters already chosen are not counted
fill_count_whole_length(length, have) == IF length > 0 THEN length ELSE 0

\* range(length - len(password)): how many characters fill the rest
fill_count(length, have) == IF length - have > 0 THEN length - have ELSE 0

\* the body without its "if not character_sets: raise ValueError"
generate_random_password_unchecked(a, t) ==
    LET sets == filtered_sets(a)
        first == guaranteed_chars(sets, t)
        all_chars == Flatten(sets)
        n == fill_count(a.length, Len(first))
    IN IF n > 0 /\ all_chars = <<>>
       THEN Raise("IndexError", "Cannot choose from an empty sequence")
       ELSE LET fill == [j \in 1..n |-> choice(all_chars, t, Len(first) + j - 1)]
            IN Return(shuffle(first \o fill, t, Len(first) + n))

generate_random_password(a, t) ==
    IF character_sets(a) = <<>>
    THEN Raise("ValueError", "At least one character set must be included")
    ELSE LET sets == filtered_sets(a)
             first == guaranteed_chars(sets, t)
             all_chars == Flatten(sets)
             n == fill_count(a.length, Len(first))
         IN IF n > 0 /\ all_chars = <<>>
            THEN Raise("IndexError", "Cannot choose from an empty sequence")
            ELSE LET fill == [j \in 1..n |-> choice(all_chars, t, Len(first) + j - 1)]
                 IN Return(shuffle(first \o fill, t, Len(first) + n))

\* the module of each draw: secrets.choice per set and per fill, then random.shuffle
random_password_sources(a) ==
    IF character_sets(a) = <<>> THEN <<>>
    ELSE LET have == Len(filtered_sets(a))
             n == fill_count(a.length, have)
         IN Draws("secrets", have + n) \o shuffle_sources(have + n)

RandomArgs ==
    [length : (-1)..MaxLen,
     include_uppercase : BOOLEAN, include_lowercase : BOOLEAN,
     include_digits : BOOLEAN, include_special : BOOLEAN,
     exclude_similar : BOOLEAN, exclude_ambiguous : BOOLEAN]

InitRandom ==
    /\ op = "generate_random_password"
    /\ args \in RandomArgs
    /\ tape \in Tapes
    /\ pc = "call"
    /\ result = Pending
    /\ DirectCall

GenerateRandomPassword ==
    /\ pc = "call"
    /\ op = "generate_random_password"
    /\ result' = generate_random_password(args, tape)
    /\ sources' = random_password_sources(args)
    /\ pc' = "done"
    /\ UNCHANGED <<op, args, tape, est, calls, response>>

SpecRandom == InitRandom /\ [][GenerateRandomPassword]_vars

(***************************************************************************)
(* Claims about generate_random_password.                                  *)
(***************************************************************************)
RandomDone == pc = "done" /\ op = "generate_random_password"

\* the number of category flags that are set
NumEnabled ==
    (IF args.include_lowercase THEN 1 ELSE 0) + (IF args.include_uppercase THEN 1 ELSE 0)
    + (IF args.include_digits THEN 1 ELSE 0) + (IF args.include_special THEN 1 ELSE 0)

Contains(s, chars) == \E i \in 1..Len(s) : s[i] \in Range(chars)

SimilarSet == {"l", "1", "I", "o", "0", "O"}

AmbiguousSet == {"{", "}", "[", "]", "(", ")", "/", "\\", "'", "\"", chr96, "~", ",", ";", ":", ".", "<", ">"}

\* C1: with at least one category enabled and length >= the number of enabled
\* categories, whatever the exclusion flags, the call returns a password of
\* exactly the requested length holding a character of each enabled category.
C1_LengthAndCoverage ==
    (RandomDone /\ NumEnabled >= 1 /\ args.length >= NumEnabled) =>
        /\ result.ok
        /\ Len(result.value) = args.length
        /\ args.include_lowercase => Contains(result.value, ascii_lowercase)
        /\ args.include_uppercase => Contains(result.value, ascii_uppercase)
        /\ args.include_digits => Contains(result.value, digits)
        /\ args.include_special => Contains(result.value, punctuation)

\* C1 witness: at least three categories, both exclusions, a length above the
\* category count, and the password returned.
C1_Witness ==
    /\ RandomDone /\ NumEnabled >= 3 /\ args.length > NumEnabled
    /\ args.exclude_similar /\ args.exclude_ambiguous
    /\ result.ok /\ Len(result.value) = args.length

\* C2: a length smaller than the number of selected categories fails and returns
\* no password; no returned string has a length other than the requested one
\* (stated for the positive lengths).
C2_ShortLengthRejected ==
    (RandomDone /\ args.length >= 1) =>
        /\ args.length < NumEnabled => ~result.ok
        /\ result.ok => Len(result.value) = args.length

\* C5: no character of a returned password is in an active exclusion set.
C5_NoExcludedCharacter ==
    (RandomDone /\ result.ok) =>
        \A i \in 1..Len(result.value) :
            /\ args.exclude_similar => result.value[i] \notin SimilarSet
            /\ args.exclude_ambiguous => result.value[i] \notin AmbiguousSet

\* C5 witness: both exclusions active, digits and punctuation enabled, and a
\* password with guaranteed and fill characters returned.
C5_Witness ==
    /\ RandomDone /\ args.exclude_similar /\ args.exclude_ambiguous
    /\ args.include_digits /\ args.include_special
    /\ result.ok /\ Len(result.value) > NumEnabled

\* C9: with no category flag set, or with every enabled category empty after
\* filtering, the call raises the configuration error and returns nothing.
\* Filtering never empties an enabled category, so the category list is empty
\* after filtering only when no flag is set.
C9_NoCategoryRejected ==
    RandomDone =>
        /\ (NumEnabled = 0 \/ filtered_sets(args) = <<>>) =>
              ~result.ok /\ result.exc = "ValueError" /\ result.value = <<>>
        /\ Len(filtered_sets(args)) = NumEnabled

\* C9 witness: no category flag set, a positive length, and the error raised.
C9_Witness ==
    /\ RandomDone /\ NumEnabled = 0 /\ args.length > 0
    /\ ~result.ok /\ result.exc = "ValueError"

(***************************************************************************)
(* transform_name                                                          *)
(***************************************************************************)
\* the alphabet level 3 prepends from
level3_symbols == <<"@", "#", "$", "%", "&", "*", "+", "-", "=", "_">>

\* the substitution with the o -> 0 of generate_name_based_password's vowel_map added
substitute_level1_with_o(s) ==
    [i \in 1..Len(s) |-> CASE s[i] = "a" -> "@" [] s[i] = "e" -> "3" [] s[i] = "i" -> "!"
                           [] s[i] = "o" -> "0" [] OTHER -> s[i]]

\* .replace('a', '@').replace('e', '3').replace('i', '!')
substitute_level1(s) ==
    [i \in 1..Len(s) |-> CASE s[i] = "a" -> "@" [] s[i] = "e" -> "3" [] s[i] = "i" -> "!"
                           [] OTHER -> s[i]]

\* [c if i % 2 == 0 else transformed[i-1] for i, c in enumerate(reversed(transformed))]
\* position p is the 0-based index i = p - 1
reverse_every_other(s) ==
    [p \in 1..Len(s) |-> IF (p - 1) % 2 = 0 THEN reversed(s)[p] ELSE s[p - 1]]

\* c.upper() if random.random() > 0.7 else c, for each c: draws k .. k+len-1
random_capitalization(s, t, k) ==
    Flatten([i \in 1..Len(s) |-> IF random_gt_07(t, k + i - 1) THEN upper_chars(s[i]) ELSE <<s[i]>>])

\* random.choice('@#$%&*+-=_') + c, for each c: draws k .. k+len-1
prepend_symbols(s, t, k) ==
    [p \in 1..(2 * Len(s)) |->
        IF p % 2 = 1 THEN choice(level3_symbols, t, k + ((p - 1) \div 2)) ELSE s[p \div 2]]

\* s[12:]: the first 12 characters dropped
last12_from_12(s) == IF Len(s) <= 12 THEN <<>> ELSE SubSeq(s, 13, Len(s))

\* s[-12:]
last12(s) == IF Len(s) <= 12 THEN s ELSE SubSeq(s, Len(s) - 11, Len(s))

\* the string after level 1 (lower-cased, and substituted from level 1 on)
level1_string(name_part, level) ==
    IF level >= 1 THEN substitute_level1(lower(name_part)) ELSE lower(name_part)

\* the string after level 2: draws 0 .. len-1
level2_string(name_part, level, t) ==
    LET l1 == level1_string(name_part, level)
    IN IF level >= 2
       THEN random_capitalization(IF Len(l1) > 2 THEN reverse_every_other(l1) ELSE l1, t, 0)
       ELSE l1

transform_name(name_part, level, t) ==
    IF name_part = <<>> THEN <<>>
    ELSE LET l1 == level1_string(name_part, level)
             l2 == level2_string(name_part, level, t)
             l3 == IF level >= 3 THEN last12(prepend_symbols(l2, t, Len(l1))) ELSE l2
         IN l3

\* the module of each draw: random.random per character, random.choice per character
transform_name_sources(name_part, level, t) ==
    IF name_part = <<>> THEN <<>>
    ELSE (IF level >= 2 THEN Draws("random", Len(level1_string(name_part, level))) ELSE <<>>)
         \o (IF level >= 3 THEN Draws("random", Len(level2_string(name_part, level, t))) ELSE <<>>)

TransformNames ==
    { <<>>, <<"b", "o", "b">>, <<"B", "o", "b">>, <<"A", "n", "n">>, <<"i", "e">>,
      <<"x", "1", "_">>, <<"A", "E", "I">>, <<"T", "o", "r", "o", "n", "t", "o">>,
      <<chr304, "z">>, <<"f", "u", chr223>> }

TransformArgs == [name_part : TransformNames, level : 1..3]

InitTransform ==
    /\ op = "transform_name"
    /\ args \in TransformArgs
    /\ tape \in Tapes
    /\ pc = "call"
    /\ result = Pending
    /\ DirectCall

TransformName ==
    /\ pc = "call"
    /\ op = "transform_name"
    /\ result' = Return(transform_name(args.name_part, args.level, tape))
    /\ sources' = transform_name_sources(args.name_part, args.level, tape)
    /\ pc' = "done"
    /\ UNCHANGED <<op, args, tape, est, calls, response>>

SpecTransform == InitTransform /\ [][TransformName]_vars

(***************************************************************************)
(* Claims about transform_name.                                            *)
(***************************************************************************)
TransformDone == pc = "done" /\ op = "transform_name"

NoAEI(s) == \A i \in 1..Len(s) : s[i] \notin {"a", "e", "i"}

NoUppercase(s) == \A i \in 1..Len(s) : s[i] \notin Range(ascii_uppercase) \cup {chr304}

\* C10 as stated: at level 1 every input without a, e, i is returned unchanged,
\* uppercase letters included, and applying level 1 again changes nothing.
C10_UnchangedWithoutAEI ==
    (TransformDone /\ args.level = 1 /\ NoAEI(args.name_part)) =>
        /\ result.value = args.name_part
        /\ transform_name(result.value, 1, tape) = result.value

\* C10 amended: at level 1 every input without a, e, i and without an uppercase
\* letter is returned unchanged, and applying level 1 again changes nothing.
C10_UnchangedWithoutAEIAndUppercase ==
    (TransformDone /\ args.level = 1 /\ NoAEI(args.name_part) /\ NoUppercase(args.name_part)) =>
        /\ result.value = args.name_part
        /\ transform_name(result.value, 1, tape) = result.value

\* C10 witness: a non-empty lowercase input without a, e, i came back unchanged.
C10_Witness ==
    /\ TransformDone /\ args.level = 1 /\ args.name_part # <<>>
    /\ NoAEI(args.name_part) /\ NoUppercase(args.name_part)
    /\ result.ok /\ result.value = args.name_part

Ascii == Range(ascii_letters \o digits \o punctuation) \cup {" "}

IsAscii(s) == \A i \in 1..Len(s) : s[i] \in Ascii

Level3Symbols == {"@", "#", "$", "%", "&", "*", "+", "-", "=", "_"}

Min(a, b) == IF a < b THEN a ELSE b

\* what C15 says of an input of n characters and its output
LengthByLevel(n, level, out) ==
    /\ n = 0 => out = <<>>
    /\ level \in {1, 2} => Len(out) = n
    /\ level = 3 =>
          /\ Len(out) = Min(12, 2 * n)
          /\ \A p \in 1..Len(out) : p % 2 = 1 => out[p] \in Level3Symbols

\* C15 as stated: the output length depends on the input length n and the level
\* only: empty gives empty; levels 1 and 2 give n characters; level 3 puts a
\* symbol of '@#$%&*+-=_' before each character and keeps the last 12, min(12, 2n).
C15_LengthByLevel ==
    TransformDone => LengthByLevel(Len(args.name_part), args.level, result.value)

\* C15 amended: the same for every input made of ASCII characters.
C15_LengthByLevelAscii ==
    (TransformDone /\ IsAscii(args.name_part)) =>
        LengthByLevel(Len(args.name_part), args.level, result.value)

\* C15 witness: an ASCII name of more than six characters at level 3 came back
\* with 12 characters.
C15_Witness ==
    /\ TransformDone /\ args.level = 3 /\ IsAscii(args.name_part)
    /\ Len(args.name_part) > 6 /\ Len(result.value) = 12

(***************************************************************************)
(* generate_pin                                                            *)
(***************************************************************************)
\* the guard off by one: a length of 3 passes
generate_pin_min3(length, t) ==
    IF length < 3
    THEN Raise("ValueError", "PIN length should be at least 4 digits")
    ELSE Return([i \in 1..length |-> choice(digits, t, i - 1)])

generate_pin(length, t) ==
    IF length < 4
    THEN Raise("ValueError", "PIN length should be at least 4 digits")
    ELSE Return([i \in 1..length |-> choice(digits, t, i - 1)])

\* the module of each draw: secrets.choice per digit
pin_sources(length) == IF length < 4 THEN <<>> ELSE Draws("secrets", length)

PinArgs == [length : (-1)..(MaxLen + 2)]

InitPin ==
    /\ op = "generate_pin"
    /\ args \in PinArgs
    /\ tape \in Tapes
    /\ pc = "call"
    /\ result = Pending
    /\ DirectCall

GeneratePin ==
    /\ pc = "call"
    /\ op = "generate_pin"
    /\ result' = generate_pin(args.length, tape)
    /\ sources' = pin_sources(args.length)
    /\ pc' = "done"
    /\ UNCHANGED <<op, args, tape, est, calls, response>>

SpecPin == InitPin /\ [][GeneratePin]_vars

(***************************************************************************)
(* Claims about generate_pin.                                              *)
(***************************************************************************)
PinDone == pc = "done" /\ op = "generate_pin"

DecimalDigits == {"0", "1", "2", "3", "4", "5", "6", "7", "8", "9"}

\* C8: with length >= 4 the PIN has exactly `length` characters, each a decimal
\* digit; with length < 4 the call fails and returns no PIN.
C8_PinDigitsOrError ==
    PinDone =>
        /\ args.length >= 4 =>
              /\ result.ok
              /\ Len(result.value) = args.length
              /\ \A i \in 1..Len(result.value) : result.value[i] \in DecimalDigits
        /\ args.length < 4 => ~result.ok /\ result.value = <<>>

\* C8 witness: a PIN of more than four digits, not all the same, was returned.
C8_Witness ==
    /\ PinDone /\ args.length > 4 /\ result.ok
    /\ Len(result.value) = args.length
    /\ \E i, j \in 1..Len(result.value) : result.value[i] # result.value[j]

(***************************************************************************)
(* generate_passphrase                                                     *)
(***************************************************************************)
words == <<
    <<"a", "p", "p", "l", "e">>,
    <<"b", "a", "n", "a", "n", "a">>,
    <<"c", "a", "r", "r", "o", "t">>,
    <<"d", "o", "g">>,
    <<"e", "l", "e", "p", "h", "a", "n", "t">>,
    <<"f", "l", "o", "w", "e", "r">>,
    <<"g", "i", "r", "a", "f", "f", "e">>,
    <<"h", "o", "u", "s", "e">>,
    <<"i", "g", "l", "o", "o">>,
    <<"j", "u", "n", "g", "l", "e">>,
    <<"k", "a", "n", "g", "a", "r", "o", "o">>,
    <<"l", "i", "o", "n">>,
    <<"m", "o", "u", "n", "t", "a", "i", "n">>,
    <<"n", "i", "g", "h", "t">>,
    <<"o", "c", "e", "a", "n">>,
    <<"p", "e", "n", "g", "u", "i", "n">>,
    <<"q", "u", "e", "e", "n">>,
    <<"r", "i", "v", "e", "r">>,
    <<"s", "u", "n">>,
    <<"t", "r", "e", "e">>,
    <<"u", "m", "b", "r", "e", "l", "l", "a">>,
    <<"v", "o", "l", "c", "a", "n", "o">>,
    <<"w", "a", "t", "e", "r">>,
    <<"x", "y", "l", "o", "p", "h", "o", "n", "e">>,
    <<"y", "a", "c", "h", "t">>,
    <<"z", "e", "b", "r", "a">> >>

\* an Optional[str]: <<>> is None, <<s>> is the string s
None == <<>>

Some(s) == <<s>>

\* "if name_part:" -- neither None nor the empty string
truthy_str(o) == o # None /\ o[1] # <<>>

RECURSIVE str_int(_)
\* str(n) of a natural number
str_int(n) == IF n < 10 THEN <<digits[n + 1]>> ELSE str_int(n \div 10) \o <<digits[(n % 10) + 1]>>

RECURSIVE join(_, _)
\* separator.join(list)
join(sep, ss) ==
    IF ss = <<>> THEN <<>>
    ELSE IF Len(ss) = 1 THEN ss[1]
    ELSE ss[1] \o sep \o join(sep, Tail(ss))

\* range(word_count): empty for a count below 1
range_len(n) == IF n > 0 THEN n ELSE 0

\* the number added to the list of words, so that the separator precedes it
generate_passphrase_number_joined(a, t) ==
    LET n == range_len(a.word_count)
        drawn == [i \in 1..n |-> choice(words, t, i - 1)]
        named == drawn
                 \o (IF truthy_str(a.name_part1) THEN <<transform_name(a.name_part1[1], 1, t)>> ELSE <<>>)
                 \o (IF truthy_str(a.name_part2) THEN <<transform_name(a.name_part2[1], 1, t)>> ELSE <<>>)
        selected_words == IF a.capitalize THEN [i \in 1..Len(named) |-> capitalize(named[i])] ELSE named
    IN Return(join(a.separator,
                   IF a.add_number THEN selected_words \o <<str_int(randbelow(t, n, 90) + 10)>>
                   ELSE selected_words))

generate_passphrase(a, t) ==
    LET n == range_len(a.word_count)
        drawn == [i \in 1..n |-> choice(words, t, i - 1)]
        named == drawn
                 \o (IF truthy_str(a.name_part1) THEN <<transform_name(a.name_part1[1], 1, t)>> ELSE <<>>)
                 \o (IF truthy_str(a.name_part2) THEN <<transform_name(a.name_part2[1], 1, t)>> ELSE <<>>)
        selected_words == IF a.capitalize THEN [i \in 1..Len(named) |-> capitalize(named[i])] ELSE named
        passphrase == join(a.separator, selected_words)
    IN Return(IF a.add_number THEN passphrase \o str_int(randbelow(t, n, 90) + 10) ELSE passphrase)

\* the module of each draw: secrets.choice per word, secrets.randbelow for the number
passphrase_sources(a) ==
    Draws("secrets", range_len(a.word_count) + (IF a.add_number THEN 1 ELSE 0))

PassphraseNames == { None, Some(<<>>), Some(<<"A", "n", "n">>) }

PassphraseArgs ==
    [word_count : (-1)..MaxWords,
     separator : { <<"-">>, <<>> },
     capitalize : BOOLEAN, add_number : BOOLEAN,
     name_part1 : PassphraseNames, name_part2 : PassphraseNames]

InitPassphrase ==
    /\ op = "generate_passphrase"
    /\ args \in PassphraseArgs
    /\ tape \in Tapes
    /\ pc = "call"
    /\ result = Pending
    /\ DirectCall

GeneratePassphrase ==
    /\ pc = "call"
    /\ op = "generate_passphrase"
    /\ result' = generate_passphrase(args, tape)
    /\ sources' = passphrase_sources(args)
    /\ pc' = "done"
    /\ UNCHANGED <<op, args, tape, est, calls, response>>

SpecPassphrase == InitPassphrase /\ [][GeneratePassphrase]_vars

(***************************************************************************)
(* Claims about generate_passphrase.                                       *)
(***************************************************************************)
PassphraseDone == pc = "done" /\ op = "generate_passphrase"

\* C7: a word count below 1 fails and returns no passphrase, whatever the
\* separator, the two flags and the name parts.
C7_WordCountBelowOneRejected ==
    (PassphraseDone /\ args.word_count < 1) => ~result.ok /\ result.value = <<>>

StartsWith(s, p) == Len(s) >= Len(p) /\ SubSeq(s, 1, Len(p)) = p

Drop(s, n) == SubSeq(s, n + 1, Len(s))

\* the component a name part contributes: none when it is None or empty, else
\* its level-1 transform, capitalised when cap is set
NameComponent(o, cap) ==
    IF o = None \/ o = Some(<<>>) THEN <<>>
    ELSE LET x == transform_name(o[1], 1, tape)
         IN <<IF cap THEN capitalize(x) ELSE x>>

RECURSIVE WordsThen(_, _, _, _, _)
\* s is k words of the word list (capitalised when cap is set) followed by the
\* components of rest, all joined by sep
WordsThen(s, k, rest, sep, cap) ==
    IF k = 0 THEN s = join(sep, rest)
    ELSE \E i \in 1..Len(words) :
            LET w == IF cap THEN capitalize(words[i]) ELSE words[i]
            IN IF k = 1 /\ rest = <<>> THEN s = w
               ELSE /\ StartsWith(s, w \o sep)
                    /\ WordsThen(Drop(s, Len(w) + Len(sep)), k - 1, rest, sep, cap)

\* C13: for word_count >= 1 the passphrase is exactly word_count words of the
\* 26-word list, then the level-1 transform of name_part1 and of name_part2 for
\* each part given and not empty, each component capitalised when capitalize
\* is set, all joined by the separator; with add_number a number of 10..99
\* follows directly, without a separator, and otherwise nothing follows.
C13_PassphraseComposition ==
    (PassphraseDone /\ args.word_count >= 1) =>
        LET v == result.value
            rest == NameComponent(args.name_part1, args.capitalize)
                    \o NameComponent(args.name_part2, args.capitalize)
            n == Len(v)
        IN /\ result.ok
           /\ Len(words) = 26
           /\ IF args.add_number
              THEN /\ n >= 2
                   /\ v[n - 1] \in DecimalDigits \ {"0"}
                   /\ v[n] \in DecimalDigits
                   /\ WordsThen(SubSeq(v, 1, n - 2), args.word_count, rest, args.separator, args.capitalize)
              ELSE WordsThen(v, args.word_count, rest, args.separator, args.capitalize)

\* C13 witness: two words and two name parts, capitalised, joined by "-", with
\* a number at the end.
C13_Witness ==
    /\ PassphraseDone /\ args.word_count = 2 /\ args.separator = <<"-">>
    /\ args.capitalize /\ args.add_number
    /\ args.name_part1 = Some(<<"A", "n", "n">>) /\ args.name_part2 = Some(<<"A", "n", "n">>)
    /\ result.ok /\ Len(result.value) > 10

(***************************************************************************)
(* generate_name_based_password                                            *)
(***************************************************************************)
\* the alphabet of the 1-2 special characters
name_specials == <<"!", "@", "#", "$", "%", "&", "*", "+", "-", "=", "_">>

\* vowel_map.get(c, c)
vowel_map(c) ==
    CASE c = "a" -> "@" [] c = "e" -> "3" [] c = "i" -> "1" [] c = "o" -> "0" [] c = "u" -> "v"
      [] OTHER -> c

\* s[:n], also for n beyond the end and for n < 0
prefix(s, n) ==
    IF n >= Len(s) THEN s
    ELSE IF n >= 0 THEN SubSeq(s, 1, n)
    ELSE IF Len(s) + n > 0 THEN SubSeq(s, 1, Len(s) + n) ELSE <<>>

\* s[n:] for 0 <= n <= len(s)
suffix(s, n) == SubSeq(s, n + 1, Len(s))

\* the city part
transformed_city(name_part1, complexity) ==
    IF complexity >= 2
    THEN LET city_part == lower(name_part1)
             half == Len(city_part) \div 2
         IN capitalize(reversed(suffix(city_part, half)) \o prefix(city_part, half))
    ELSE capitalize(name_part1)

\* the catchy word; complexity 3 takes draws 0 .. len-1
transformed_word(name_part2, complexity, t) ==
    LET word_part == lower(name_part2)
        mapped == [i \in 1..Len(word_part) |-> vowel_map(word_part[i])]
    IN IF complexity >= 2
       THEN (IF complexity >= 3 THEN random_capitalization(mapped, t, 0) ELSE mapped)
       ELSE capitalize(word_part)

\* the number of draws transformed_word has taken
word_draws(name_part2, complexity) == IF complexity >= 3 THEN Len(lower(name_part2)) ELSE 0

\* 2-4 random digits then 1-2 special characters, the draws starting at draw k;
\* each count is drawn before the characters it counts
random_suffix(t, k) ==
    LET nd == randint(2, 4, t, k)
        ds == [i \in 1..nd |-> choice(digits, t, k + i)]
        ns == randint(1, 2, t, k + nd + 1)
        sp == [i \in 1..ns |-> choice(name_specials, t, k + nd + 1 + i)]
    IN ds \o sp

\* the password before the length requirement: city + word (+ digits + specials)
composed_password(a, t) ==
    LET base == transformed_city(a.name_part1, a.complexity)
                \o transformed_word(a.name_part2, a.complexity, t)
    IN IF a.include_random
       THEN base \o random_suffix(t, word_draws(a.name_part2, a.complexity))
       ELSE base

\* the number of draws composed_password has taken
composed_draws(a, t) ==
    LET k == word_draws(a.name_part2, a.complexity)
    IN IF a.include_random
       THEN k + 2 + Len(random_suffix(t, k))
       ELSE k

\* the length requirement with its padding branch missing
fit_length_truncate_only(password, length, t, k) ==
    IF Len(password) > length THEN prefix(password, length) ELSE password

\* "Ensure length requirement": truncate, or pad with draws k ..
fit_length(password, length, t, k) ==
    IF Len(password) > length THEN prefix(password, length)
    ELSE IF Len(password) < length
    THEN password \o [i \in 1..(length - Len(password)) |->
                        choice(ascii_letters \o digits \o punctuation, t, k + i - 1)]
    ELSE password

\* the number of draws fit_length has taken
fit_draws(password, length) == IF Len(password) < length THEN length - Len(password) ELSE 0

generate_name_based_password(a, t) ==
    LET composed == composed_password(a, t)
        k == composed_draws(a, t)
        fitted == fit_length(composed, a.length, t, k)
    IN Return(shuffle(fitted, t, k + fit_draws(composed, a.length)))

\* the module of each draw: random.random, random.randint, random.choice, random.shuffle
name_based_sources(a, t) ==
    LET composed == composed_password(a, t)
    IN Draws("random", composed_draws(a, t) + fit_draws(composed, a.length))
       \o shuffle_sources(Len(fit_length(composed, a.length, t, composed_draws(a, t))))

CityNames == { <<>>, <<"a", "b">>, <<"T", "o", "r", "o", "n", "t", "o">> }

WordNames == { <<>>, <<"i", "e">>, <<"B", "l", "u", "e">> }

NameBasedArgs ==
    [name_part1 : CityNames, name_part2 : WordNames, length : (-1)..MaxLen,
     complexity : 1..3, include_random : BOOLEAN]

InitNameBased ==
    /\ op = "generate_name_based_password"
    /\ args \in NameBasedArgs
    /\ tape \in Tapes
    /\ pc = "call"
    /\ result = Pending
    /\ DirectCall

GenerateNameBasedPassword ==
    /\ pc = "call"
    /\ op = "generate_name_based_password"
    /\ result' = generate_name_based_password(args, tape)
    /\ sources' = name_based_sources(args, tape)
    /\ pc' = "done"
    /\ UNCHANGED <<op, args, tape, est, calls, response>>

SpecNameBased == InitNameBased /\ [][GenerateNameBasedPassword]_vars

(***************************************************************************)
(* Claims about generate_name_based_password.                              *)
(***************************************************************************)
NameBasedDone == pc = "done" /\ op = "generate_name_based_password"

\* how often c occurs in s
Count(c, s) == Cardinality({i \in 1..Len(s) : s[i] = c})

\* C3: every password the call returns holds at least one uppercase letter, one
\* digit and one punctuation character (stated for the requested lengths that
\* have room for the three).
C3_HasUpperDigitPunctuation ==
    (NameBasedDone /\ result.ok /\ args.length >= 3) =>
        /\ Contains(result.value, ascii_uppercase)
        /\ Contains(result.value, digits)
        /\ Contains(result.value, punctuation)

\* C4: with a positive requested length the returned password has exactly that
\* length: a longer composed string is cut to its first `length` characters, a
\* shorter one keeps all its characters and is padded, and the shuffle only
\* reorders.
C4_ExactLength ==
    (NameBasedDone /\ args.length > 0) =>
        LET composed == composed_password(args, tape)
        IN /\ result.ok
           /\ Len(result.value) = args.length
           /\ Len(composed) >= args.length =>
                 \A c \in Range(composed) \cup Range(result.value) :
                     Count(c, result.value) = Count(c, SubSeq(composed, 1, args.length))
           /\ Len(composed) < args.length =>
                 \A c \in Range(composed) : Count(c, result.value) >= Count(c, composed)

\* C4 witness: a composed string shorter than the requested length was padded
\* to it.
C4_Witness ==
    /\ NameBasedDone /\ args.length > 0 /\ result.ok
    /\ composed_password(args, tape) # <<>>
    /\ Len(composed_password(args, tape)) < args.length
    /\ Len(result.value) = args.length

(***************************************************************************)
(* validate_password_rules                                                 *)
(***************************************************************************)
\* an Optional[int] or Optional[bool] of ValidationRules: <<>> is None, <<v>> is v
truthy_int(o) == o # <<>> /\ o[1] # 0

truthy_bool(o) == o # <<>> /\ o[1]

\* re.search(r'[A-Z]', password) and the like: some character is in the class
search_class(password, class) == \E i \in 1..Len(password) : password[i] \in Range(class)

\* re.search(r'[^a-zA-Z0-9]', password): some character is outside the classes
search_not_alnum(password) ==
    \E i \in 1..Len(password) : password[i] \notin Range(ascii_letters \o digits)

too_short(n) == [msg |-> "Password too short (min {min_length} chars)", min_length |-> n]

no_upper == [msg |-> "Password must contain uppercase letters"]

no_lower == [msg |-> "Password must contain lowercase letters"]

no_digit == [msg |-> "Password must contain digits"]

no_special == [msg |-> "Password must contain special characters"]

\* the five checks, each appending to errors
rule_errors(password, rules) ==
    (IF truthy_int(rules.min_length) /\ Len(password) < rules.min_length[1]
     THEN <<too_short(rules.min_length[1])>> ELSE <<>>)
    \o (IF truthy_bool(rules.require_upper) /\ ~search_class(password, ascii_uppercase)
        THEN <<no_upper>> ELSE <<>>)
    \o (IF truthy_bool(rules.require_lower) /\ ~search_class(password, ascii_lowercase)
        THEN <<no_lower>> ELSE <<>>)
    \o (IF truthy_bool(rules.require_digit) /\ ~search_class(password, digits)
        THEN <<no_digit>> ELSE <<>>)
    \o (IF truthy_bool(rules.require_special) /\ ~search_not_alnum(password)
        THEN <<no_special>> ELSE <<>>)

\* the checks as an if / elif chain: only the first violated rule is reported
validate_password_rules_first_only(password, rules) ==
    LET errors == rule_errors(password, rules)
    IN [is_valid |-> Len(errors) = 0, errors |-> IF errors = <<>> THEN <<>> ELSE <<errors[1]>>]

validate_password_rules(password, rules) ==
    LET errors == rule_errors(password, rules)
    IN [is_valid |-> Len(errors) = 0, errors |-> errors]

ValidatePasswords ==
    { <<>>, <<"a", "b", "c">>, <<"A", "b", "c", "1", "!">>, <<"a", " ", "b">>,
      <<"A", "B", "C", "D", "E", "F", "G", "H">>, <<"1", "2", "3", "4", "5", "6", "7", "8">>,
      <<"A", "b", "c", "d", "e", "f", "g", "1", "!">> }

OptionalBool == { <<>>, <<TRUE>>, <<FALSE>> }

ValidationRules ==
    [min_length : { <<>>, <<0>>, <<4>>, <<8>> },
     require_upper : OptionalBool, require_lower : OptionalBool,
     require_digit : OptionalBool, require_special : OptionalBool]

ValidateArgs == [password : ValidatePasswords, rules : ValidationRules]

InitValidate ==
    /\ op = "validate_password_rules"
    /\ args \in ValidateArgs
    /\ tape = [i \in 1..TapeLen |-> 0]
    /\ pc = "call"
    /\ result = Pending
    /\ DirectCall

ValidatePasswordRules ==
    /\ pc = "call"
    /\ op = "validate_password_rules"
    /\ result' = Return(validate_password_rules(args.password, args.rules))
    /\ sources' = <<>>
    /\ pc' = "done"
    /\ UNCHANGED <<op, args, tape, est, calls, response>>

SpecValidate == InitValidate /\ [][ValidatePasswordRules]_vars

(***************************************************************************)
(* Claims about validate_password_rules.                                   *)
(***************************************************************************)
ValidateDone == pc = "done" /\ op = "validate_password_rules"

RuleOrder == <<"length", "upper", "lower", "digit", "special">>

\* the rule an error message belongs to
RuleOf(e) ==
    CASE e.msg = "Password too short (min {min_length} chars)" -> "length"
      [] e.msg = "Password must contain uppercase letters" -> "upper"
      [] e.msg = "Password must contain lowercase letters" -> "lower"
      [] e.msg = "Password must contain digits" -> "digit"
      [] e.msg = "Password must contain special characters" -> "special"

Rank(r) == CHOOSE i \in 1..Len(RuleOrder) : RuleOrder[i] = r

IsSet(o) == o # <<>> /\ o[1] = TRUE

\* rule r is enforced by the rules and violated by the password
Violated(r, password, rules) ==
    CASE r = "length" -> rules.min_length \notin { <<>>, <<0>> } /\ Len(password) < rules.min_length[1]
      [] r = "upper" -> IsSet(rules.require_upper) /\ Range(password) \cap Range(ascii_uppercase) = {}
      [] r = "lower" -> IsSet(rules.require_lower) /\ Range(password) \cap Range(ascii_lowercase) = {}
      [] r = "digit" -> IsSet(rules.require_digit) /\ Range(password) \cap DecimalDigits = {}
      [] r = "special" -> IsSet(rules.require_special)
                          /\ Range(password) \subseteq Range(ascii_letters) \cup DecimalDigits

\* C6: every enforced rule is evaluated; the errors are one per violated rule, in
\* the order length, uppercase, lowercase, digit, special; is_valid is true
\* exactly when there is no error; "abc" with min length 8 and the four class
\* rules gives the four errors length, upper, digit, special.
C6_AllRulesInFixedOrder ==
    ValidateDone =>
        LET errors == result.value.errors
            rules_hit == [i \in 1..Len(errors) |-> RuleOf(errors[i])]
        IN /\ result.ok
           /\ result.value.is_valid <=> errors = <<>>
           /\ \A r \in Range(RuleOrder) :
                 (r \in Range(rules_hit)) <=> Violated(r, args.password, args.rules)
           /\ \A i, j \in 1..Len(errors) : i < j => Rank(rules_hit[i]) < Rank(rules_hit[j])
           /\ \A i \in 1..Len(errors) :
                 rules_hit[i] = "length" => errors[i].min_length = args.rules.min_length[1]
           /\ ( /\ args.password = <<"a", "b", "c">>
                /\ args.rules = [min_length |-> <<8>>, require_upper |-> <<TRUE>>,
                                 require_lower |-> <<TRUE>>, require_digit |-> <<TRUE>>,
                                 require_special |-> <<TRUE>>] )
              => rules_hit = <<"length", "upper", "digit", "special">>

\* C6 witness: "abc" checked against min length 8 and the four class rules, four
\* errors returned and is_valid false.
C6_Witness ==
    /\ ValidateDone
    /\ args.password = <<"a", "b", "c">>
    /\ args.rules = [min_length |-> <<8>>, require_upper |-> <<TRUE>>, require_lower |-> <<TRUE>>,
                     require_digit |-> <<TRUE>>, require_special |-> <<TRUE>>]
    /\ Len(result.value.errors) = 4
    /\ ~result.value.is_valid

(***************************************************************************)
(* Claims about the random sources of the generators.                      *)
(***************************************************************************)
GeneratorOps ==
    {"generate_random_password", "generate_pin", "generate_passphrase",
     "generate_name_based_password"}

\* C14: in every generator every draw that decides a character of the returned
\* secret or its position is made with the secure source (secrets), never with
\* the ordinary pseudo-random generator (random).
C14_OnlySecureDraws ==
    (pc = "done" /\ op \in GeneratorOps /\ result.ok) =>
        \A i \in 1..Len(sources) : sources[i] = "secrets"

(***************************************************************************)
(* Any one direct call of a function.                                      *)
(***************************************************************************)
Init ==
    \/ InitRandom
    \/ InitTransform
    \/ InitPin
    \/ InitPassphrase
    \/ InitNameBased
    \/ InitValidate

Next ==
    \/ GenerateRandomPassword
    \/ TransformName
    \/ GeneratePin
    \/ GeneratePassphrase
    \/ GenerateNameBasedPassword
    \/ ValidatePasswordRules

Spec == Init /\ [][Next]_vars

(***************************************************************************)
(* check_password_strength and hash_password.                              *)
(***************************************************************************)
\* what zxcvbn raises when it fails
zxcvbn_message == "zxcvbn failed"

\* zxcvbn.zxcvbn(password).  The estimator is a library: e says whether it
\* raises in this request and the score it gives; what it reports is a report
\* of the password it was given.
zxcvbn(password, e) ==
    IF e.fails THEN Raise("Exception", zxcvbn_message)
    ELSE Return([score |-> e.score,
                 feedback |-> [feedback_of |-> password],
                 crack_times_display |->
                     [offline_slow_hashing_1e4_per_second |-> [crack_time_of |-> password]],
                 guesses |-> [guesses_of |-> password]])

check_password_strength(password, e) ==
    LET zx == zxcvbn(password, e)
    IN IF ~zx.ok THEN zx
       ELSE Return([score |-> zx.value.score,
                    feedback |-> zx.value.feedback,
                    crack_time |-> zx.value.crack_times_display.offline_slow_hashing_1e4_per_second,
                    guesses |-> zx.value.guesses])

\* the algorithm names hashlib.new accepts, of those a request of the model names
hashlib_algorithms == {"sha256", "md5", "shake_128"}

\* the algorithms whose hexdigest() takes a length
hashlib_xof == {"shake_128"}

hash_password(password, algorithm) ==
    IF algorithm \notin hashlib_algorithms
    THEN Raise("ValueError", <<"unsupported hash type ", algorithm>>)
    ELSE IF algorithm \in hashlib_xof
    THEN Raise("TypeError", "hexdigest() missing required argument 'length' (pos 1)")
    ELSE Return([hexdigest |-> algorithm, of |-> password])

(***************************************************************************)
(* The endpoints of main.py.  An endpoint gives the outcome of the first   *)
(* call it makes (generated), the calls it made with their arguments and   *)
(* outcomes, the sources of the draws, and its HTTP answer.                *)
(***************************************************************************)
\* raise HTTPException(status_code=..., detail=...)
HTTPException(status_code, detail) == [status |-> status_code, body |-> [detail |-> detail]]

\* return body
Ok(body) == [status |-> 200, body |-> body]

Call(fn, a, outcome) == [fn |-> fn, args |-> a, outcome |-> outcome]

Handled(generated, made, drawn, answer) ==
    [generated |-> generated, calls |-> made, sources |-> drawn, response |-> answer]

\* a generator call, then the strength of what it returned; a failure of the
\* estimator answered with the secret alone
Generated_secret_kept(field, generator_call, drawn, e) ==
    LET secret == generator_call.outcome
        strength == check_password_strength(secret.value, e)
        strength_call == Call("check_password_strength", secret.value, strength)
    IN IF ~secret.ok
       THEN Handled(secret, <<generator_call>>, drawn, HTTPException(400, secret.msg))
       ELSE IF ~strength.ok
       THEN Handled(secret, <<generator_call, strength_call>>, drawn,
                    Ok([f \in {field} |-> secret.value]))
       ELSE Handled(secret, <<generator_call, strength_call>>, drawn,
                    Ok([f \in {field, "strength"} |->
                           IF f = "strength" THEN strength.value ELSE secret.value]))

\* a generator call, then the strength of what it returned, answered under field
Generated(field, generator_call, drawn, e) ==
    LET secret == generator_call.outcome
        strength == check_password_strength(secret.value, e)
        strength_call == Call("check_password_strength", secret.value, strength)
    IN IF ~secret.ok
       THEN Handled(secret, <<generator_call>>, drawn, HTTPException(400, secret.msg))
       ELSE IF ~strength.ok
       THEN Handled(secret, <<generator_call, strength_call>>, drawn,
                    HTTPException(400, strength.msg))
       ELSE Handled(secret, <<generator_call, strength_call>>, drawn,
                    Ok([f \in {field, "strength"} |->
                           IF f = "strength" THEN strength.value ELSE secret.value]))

\* the keyword arguments, the length of the first name part passed as the length
password_kwargs_with_name(options) ==
    [length |-> IF options.name_part1 = None THEN options.length
                ELSE Len(options.name_part1[1]),
     include_uppercase |-> options.include_uppercase,
     include_lowercase |-> options.include_lowercase,
     include_digits |-> options.include_digits,
     include_special |-> options.include_special,
     exclude_similar |-> options.exclude_similar,
     exclude_ambiguous |-> options.exclude_ambiguous]

\* the keyword arguments /generate/password passes to generate_random_password
password_kwargs(options) ==
    [length |-> options.length,
     include_uppercase |-> options.include_uppercase,
     include_lowercase |-> options.include_lowercase,
     include_digits |-> options.include_digits,
     include_special |-> options.include_special,
     exclude_similar |-> options.exclude_similar,
     exclude_ambiguous |-> options.exclude_ambiguous]

\* POST /generate/password
generate_password(options, t, e) ==
    LET kw == password_kwargs(options)
    IN Generated("password",
                 Call("generate_random_password", kw, generate_random_password(kw, t)),
                 random_password_sources(kw), e)

\* POST /generate/passphrase
generate_passphrase_endpoint(options, t, e) ==
    Generated("passphrase",
              Call("generate_passphrase", options, generate_passphrase(options, t)),
              passphrase_sources(options), e)

\* POST /generate/pin
generate_pin_endpoint(options, t, e) ==
    LET pin == generate_pin(options.length, t)
        made == <<Call("generate_pin", options.length, pin)>>
    IN IF ~pin.ok
       THEN Handled(pin, made, pin_sources(options.length), HTTPException(400, pin.msg))
       ELSE Handled(pin, made, pin_sources(options.length), Ok([pin |-> pin.value]))

\* POST /generate/name-based, the strength taken of the first name part
generate_name_based_strength_of_name(options, t, e) ==
    LET password == generate_name_based_password(options, t)
        strength == check_password_strength(options.name_part1, e)
    IN IF ~strength.ok
       THEN Handled(password,
                    <<Call("generate_name_based_password", options, password),
                      Call("check_password_strength", options.name_part1, strength)>>,
                    name_based_sources(options, t), HTTPException(400, strength.msg))
       ELSE Handled(password,
                    <<Call("generate_name_based_password", options, password),
                      Call("check_password_strength", options.name_part1, strength)>>,
                    name_based_sources(options, t),
                    Ok([password |-> password.value, strength |-> strength.value]))

\* POST /generate/name-based
generate_name_based(options, t, e) ==
    Generated("password",
              Call("generate_name_based_password", options,
                   generate_name_based_password(options, t)),
              name_based_sources(options, t), e)

\* POST /check-strength
check_strength(request, t, e) ==
    LET strength == check_password_strength(request.password, e)
        made == <<Call("check_password_strength", request.password, strength)>>
    IN IF ~strength.ok
       THEN Handled(strength, made, <<>>, HTTPException(400, strength.msg))
       ELSE Handled(strength, made, <<>>, Ok(strength.value))

\* POST /validate
validate_password(request, t, e) ==
    LET validation == Return(validate_password_rules(request.password, request.rules))
    IN Handled(validation,
               <<Call("validate_password_rules", request, validation)>>, <<>>,
               Ok(validation.value))

\* POST /hash
hash_password_endpoint(query, t, e) ==
    LET hashed == hash_password(query.password, query.algorithm)
        made == <<Call("hash_password", query, hashed)>>
    IN IF ~hashed.ok
       THEN Handled(hashed, made, <<>>, HTTPException(400, hashed.msg))
       ELSE Handled(hashed, made, <<>>, Ok([hash |-> hashed.value]))

Endpoints ==
    {"POST /generate/password", "POST /generate/passphrase", "POST /generate/pin",
     "POST /generate/name-based", "POST /check-strength", "POST /validate", "POST /hash"}

\* the handler of an endpoint
Handler(endpoint, request, t, e) ==
    CASE endpoint = "POST /generate/password" -> generate_password(request, t, e)
      [] endpoint = "POST /generate/passphrase" -> generate_passphrase_endpoint(request, t, e)
      [] endpoint = "POST /generate/pin" -> generate_pin_endpoint(request, t, e)
      [] endpoint = "POST /generate/name-based" -> generate_name_based(request, t, e)
      [] endpoint = "POST /check-strength" -> check_strength(request, t, e)
      [] endpoint = "POST /validate" -> validate_password(request, t, e)
      [] endpoint = "POST /hash" -> hash_password_endpoint(request, t, e)

(***************************************************************************)
(* The requests of the model.                                              *)
(***************************************************************************)
\* the estimator raises, or gives the lowest or the highest score
Estimators ==
    {[fails |-> TRUE, score |-> 0], [fails |-> FALSE, score |-> 0], [fails |-> FALSE, score |-> 4]}

\* Optional[str] = None
OptionalNames == { None, Some(<<"A", "n", "n">>) }

\* PasswordRequest; the character categories and the exclusions go in pairs
PasswordRequests ==
    { [length |-> MaxLen,
       include_uppercase |-> letters, include_lowercase |-> letters,
       include_digits |-> others, include_special |-> others,
       exclude_similar |-> exclude, exclude_ambiguous |-> exclude,
       name_part1 |-> n1, name_part2 |-> n2] :
          letters \in BOOLEAN, others \in BOOLEAN, exclude \in BOOLEAN,
          n1 \in OptionalNames, n2 \in OptionalNames }

\* PassphraseRequest
PassphraseRequests ==
    { [word_count |-> n, separator |-> <<"-">>, capitalize |-> TRUE, add_number |-> number,
       name_part1 |-> n1, name_part2 |-> n2] :
          n \in {1, MaxWords}, number \in BOOLEAN,
          n1 \in OptionalNames, n2 \in OptionalNames }

\* PinRequest
PinRequests == [length : {3, 4, MaxLen + 2}]

\* NameBasedRequest
NameBasedRequests ==
    [name_part1 : { <<"a", "b">>, <<"T", "o", "r", "o", "n", "t", "o">> },
     name_part2 : { <<"B", "l", "u", "e">> },
     length : {MaxLen}, complexity : 1..3, include_random : BOOLEAN]

\* PasswordCheckRequest
PasswordCheckRequests == [password : { <<>>, <<"a", "b", "c">>, <<"A", "b", "c", "1", "!">> }]

\* ValidationRequest; a field of its rules left out is None
ValidationRequests ==
    [password : { <<"a", "b", "c">>, <<"A", "b", "c", "d", "e", "f", "g", "1", "!">> },
     rules : [min_length : { <<>>, <<8>> },
              require_upper : OptionalBool, require_lower : { <<>> },
              require_digit : { <<TRUE>> }, require_special : { <<>>, <<TRUE>> }]]

\* the query parameters of /hash
HashRequests ==
    [password : { <<>>, <<"a", "b", "c">> }, algorithm : {"sha256", "md5", "shake_128", "sha0"}]

\* the endpoints that draw from the random sources
DrawingEndpoints ==
    {"POST /generate/password", "POST /generate/passphrase", "POST /generate/pin",
     "POST /generate/name-based"}

\* the endpoints that call the estimator
EstimatingEndpoints ==
    {"POST /generate/password", "POST /generate/passphrase", "POST /generate/name-based",
     "POST /check-strength"}

Requests(endpoint) ==
    CASE endpoint = "POST /generate/password" -> PasswordRequests
      [] endpoint = "POST /generate/passphrase" -> PassphraseRequests
      [] endpoint = "POST /generate/pin" -> PinRequests
      [] endpoint = "POST /generate/name-based" -> NameBasedRequests
      [] endpoint = "POST /check-strength" -> PasswordCheckRequests
      [] endpoint = "POST /validate" -> ValidationRequests
      [] endpoint = "POST /hash" -> HashRequests

InitApi ==
    /\ op \in Endpoints
    /\ args \in Requests(op)
    /\ tape \in (IF op \in DrawingEndpoints THEN Tapes ELSE {[i \in 1..TapeLen |-> 0]})
    /\ est \in (IF op \in EstimatingEndpoints THEN Estimators ELSE {NoEstimator})
    /\ pc = "call"
    /\ result = Pending
    /\ sources = <<>>
    /\ calls = <<>>
    /\ response = NoResponse

Answer(handled) ==
    /\ result' = handled.generated
    /\ calls' = handled.calls
    /\ sources' = handled.sources
    /\ response' = handled.response
    /\ pc' = "done"
    /\ UNCHANGED <<op, args, tape, est>>

GeneratePassword ==
    /\ pc = "call"
    /\ op = "POST /generate/password"
    /\ Answer(generate_password(args, tape, est))

GeneratePassphraseEndpoint ==
    /\ pc = "call"
    /\ op = "POST /generate/passphrase"
    /\ Answer(generate_passphrase_endpoint(args, tape, est))

GeneratePinEndpoint ==
    /\ pc = "call"
    /\ op = "POST /generate/pin"
    /\ Answer(generate_pin_endpoint(args, tape, est))

GenerateNameBased ==
    /\ pc = "call"
    /\ op = "POST /generate/name-based"
    /\ Answer(generate_name_based(args, tape, est))

CheckStrength ==
    /\ pc = "call"
    /\ op = "POST /check-strength"
    /\ Answer(check_strength(args, tape, est))

ValidatePassword ==
    /\ pc = "call"
    /\ op = "POST /validate"
    /\ Answer(validate_password(args, tape, est))

HashPasswordEndpoint ==
    /\ pc = "call"
    /\ op = "POST /hash"
    /\ Answer(hash_password_endpoint(args, tape, est))

NextApi ==
    \/ GeneratePassword
    \/ GeneratePassphraseEndpoint
    \/ GeneratePinEndpoint
    \/ GenerateNameBased
    \/ CheckStrength
    \/ ValidatePassword
    \/ HashPasswordEndpoint

SpecApi == InitApi /\ [][NextApi]_vars

(***************************************************************************)
(* Claims about the endpoints.                                             *)
(***************************************************************************)
ApiDone == pc = "done" /\ op \in Endpoints

\* the fields of an answer that hold a secret or what was derived from one
SecretFields == {"password", "passphrase", "pin", "strength", "hash"}

\* the answer is an error answer with status 400 and this detail, and nothing else
Answers400(detail) ==
    /\ response.status = 400
    /\ response.body = [detail |-> detail]
    /\ DOMAIN response.body \cap SecretFields = {}

\* C11: every endpoint catches any failure raised by the generator, the
\* strength evaluator or the hasher (an unknown hash algorithm included) and
\* answers with status 400 whose detail is the message of the failure; a
\* failed request returns no password, passphrase, pin, strength or hash
\* field; a failure of the strength evaluator after a successful generation
\* gives the error, not the secret.
C11_FailureAnswers400 ==
    ApiDone =>
        /\ \A i \in 1..Len(calls) :
              ~calls[i].outcome.ok => Answers400(calls[i].outcome.msg)
        /\ (op \in EstimatingEndpoints /\ est.fails
              /\ (op = "POST /check-strength" \/ result.ok))
              => Answers400(zxcvbn_message)
        /\ (op \in DrawingEndpoints /\ ~result.ok) => Answers400(result.msg)
        /\ (op = "POST /hash" /\ args.algorithm \notin hashlib_algorithms)
              => Answers400(<<"unsupported hash type ", args.algorithm>>)
        /\ response.status \in {200, 400}
        /\ response.status = 400 => DOMAIN response.body = {"detail"}

\* C11 witness: a name-based password was generated, the estimator then failed,
\* and the answer is the error with the estimator's message and no password.
C11_Witness ==
    /\ ApiDone
    /\ op = "POST /generate/name-based"
    /\ Len(calls) = 2
    /\ calls[1].outcome.ok
    /\ Len(calls[1].outcome.value) = MaxLen
    /\ ~calls[2].outcome.ok
    /\ response = [status |-> 400, body |-> [detail |-> zxcvbn_message]]

\* the generator of a generator endpoint, and the field its secret is answered under
GeneratorOf(endpoint) ==
    CASE endpoint = "POST /generate/password" -> "generate_random_password"
      [] endpoint = "POST /generate/passphrase" -> "generate_passphrase"
      [] endpoint = "POST /generate/pin" -> "generate_pin"
      [] endpoint = "POST /generate/name-based" -> "generate_name_based_password"

SecretField(endpoint) ==
    CASE endpoint = "POST /generate/password" -> "password"
      [] endpoint = "POST /generate/passphrase" -> "passphrase"
      [] endpoint = "POST /generate/pin" -> "pin"
      [] endpoint = "POST /generate/name-based" -> "password"

\* one generator call, then the strength of the secret it returned, then an
\* answer of that secret and that strength report
GeneratedThenEvaluated ==
    /\ Len(calls) = 2
    /\ calls[1].fn = GeneratorOf(op)
    /\ calls[1].outcome = result
    /\ result.ok
    /\ calls[2].fn = "check_password_strength"
    /\ calls[2].args = result.value
    /\ calls[2].outcome = check_password_strength(result.value, est)
    /\ DOMAIN response.body = {SecretField(op), "strength"}
    /\ response.body[SecretField(op)] = result.value
    /\ response.body.strength = calls[2].outcome.value
    /\ response.body.strength.guesses = [guesses_of |-> result.value]

\* C12 as stated: for every generator endpoint (random password, passphrase,
\* PIN, name-based) a successful request calls exactly one generator, then
\* passes the generated secret through the strength evaluator, then answers
\* with the secret and the strength report of that same secret.
C12_GenerateThenEvaluate ==
    (ApiDone /\ op \in DrawingEndpoints /\ response.status = 200) => GeneratedThenEvaluated

\* C12 amended: that order holds for the random password, passphrase and
\* name-based endpoints; a successful PIN request calls generate_pin only and
\* answers with the pin alone, without a strength report.
C12_GenerateThenEvaluateExceptPin ==
    (ApiDone /\ op \in DrawingEndpoints /\ response.status = 200) =>
        IF op = "POST /generate/pin"
        THEN /\ Len(calls) = 1
             /\ calls[1].fn = "generate_pin"
             /\ calls[1].outcome = result
             /\ result.ok
             /\ response.body = [pin |-> result.value]
        ELSE GeneratedThenEvaluated

\* C12 witness: a name-based request answered with status 200, a password of
\* the requested length and the report of score 4.
C12_Witness ==
    /\ ApiDone
    /\ op = "POST /generate/name-based"
    /\ response.status = 200
    /\ Len(response.body.password) = MaxLen
    /\ response.body.strength.score = 4
    /\ Len(calls) = 2

====
